---- MODULE Spec2Model ----
(***************************************************************************)
(* Restaurant_App: the decision tracker and outcome evaluator (SQLite),    *)
(* the two item-baseline engines, and the revenue decomposition, modelled  *)
(* from the engines under src/server/src/engines and src/unnamed.          *)
(***************************************************************************)
EXTENDS Integers, Sequences, FiniteSets, TLC

VARIABLES
    decisions,          \* table decisions: row id = index (AUTOINCREMENT)
    decision_outcomes,  \* table decision_outcomes, in insertion order
    now,                \* the wall clock, in ticks (UnitsPerDay ticks a day)
    foreignKeys,        \* whether the connection enforces FOREIGN KEY clauses
    ret,                \* the last call and what it returned: <<operation, decision id, result>>
    itemBaseline,       \* Prisma table ItemBaseline, in insertion order
    item_baselines,     \* SQLite table item_baselines (set of rows)
    baselineSeq,        \* sqlite_sequence of item_baselines (last rowid used)
    saleTimes,          \* per item: the timestamps of its order lines
    task,               \* per computeItemBaseline invocation: its position and locals
    decomp,             \* the last revenue decomposition returned
    insights,           \* the number of rows stored in the insights tables
    store,              \* the Prisma store read by the API routes: MenuItem and Order rows
    response,           \* the last response of an API route or engine over the store
    timeAggregate,      \* Prisma table TimeAggregate, in insertion order
    recompute,          \* per recomputeAll invocation: its position, locals and outcome
    insight             \* Prisma table Insight, in insertion order

trackerVars == <<decisions, decision_outcomes, foreignKeys, ret>>
baselineVars == <<itemBaseline, item_baselines, baselineSeq, saleTimes, task>>
decompVars == <<decomp, insights>>
apiVars == <<store, response, timeAggregate>>
opsVars == <<recompute, insight>>
vars == <<trackerVars, now, baselineVars, decompVars, apiVars, opsVars>>

----------------------------------------------------------------------------
(* Bounds of the model *)

MaxDecisions == 1
MaxOutcomes == 2
UnitsPerDay == 2

MaxItems == 1
MaxTasks == 2
MaxBaselineRows == 2
MaxInsights == 1
MaxOrders == 2
MaxAggregates == 1
Precision == 4

(* Program constants *)

MinDaysElapsed == 7
NoTimestamp == -1
LookbackDefault == 30
MinDataPoints == 5
MinDataDays == 7

Max(a, b) == IF a >= b THEN a ELSE b
Min(a, b) == IF a <= b THEN a ELSE b
Abs(a) == IF a >= 0 THEN a ELSE -a

----------------------------------------------------------------------------
(* DecisionTracker (better-sqlite3: every call is one synchronous,         *)
(* atomic statement)                                                       *)

\* The status strings: the four of the TypeScript union, plus 'dismissed',
\* which the erased type annotation does not stop a caller from passing.
Statuses == {"pending", "accepted", "rejected", "implemented", "dismissed"}

EntityTypes == {"item", "restaurant", "channel"}

\* predictedImpact: a map that may or may not hold revenue_change_pct
Impact(p) == [has |-> TRUE, pct |-> p]
NoImpact == [has |-> FALSE, pct |-> 0]
PredictedImpacts == {Impact(10)}

\* what the transaction store makes the measured percent change
ActualPcts == {8}

\* the instants at which the clock is read: an early one, and three around
\* MinDaysElapsed days later
Instants ==
    LET w == MinDaysElapsed * UnitsPerDay
    IN {0, w - 1, w, w + 1}

DecisionIds == 1..MaxDecisions

DecisionExists(id) == id \in 1..Len(decisions)

\* JSON.stringify(decision.predictedImpact): the text of the object's members
JSONstringify(impact) ==
    IF impact.has THEN <<<<"revenue_change_pct", impact.pct>>>> ELSE <<>>

\* a parse that loses the members of the object
JSONparse_Empty(text) == NoImpact

\* JSON.parse(row.predicted_impact)
JSONparse(text) ==
    IF text = <<>> THEN NoImpact ELSE Impact(text[1][2])

\* the entity the decisions are recorded for, unless a run draws it from a set
ScopeId == 1

\* INSERT INTO decisions (...): status DEFAULT 'pending', implemented_at NULL
NewDecisionRow(entityId, etype, predicted) ==
    [entityId |-> entityId,
     entityType |-> etype,
     predictedImpact |-> JSONstringify(predicted),
     status |-> "pending",
     implementedAt |-> NoTimestamp]

logRecommendation(entityId, etype, predicted) ==
    /\ Len(decisions) < MaxDecisions
    /\ decisions' = Append(decisions, NewDecisionRow(entityId, etype, predicted))
    /\ ret' = <<"logRecommendation", Len(decisions) + 1, "id">>
    /\ UNCHANGED <<decision_outcomes, foreignKeys, now, baselineVars, decompVars, apiVars, opsVars>>

\* the Decision object built from a row of decisions
DecisionView(row) ==
    [entityId |-> row.entityId,
     entityType |-> row.entityType,
     predictedImpact |-> JSONparse(row.predictedImpact),
     status |-> row.status,
     implementedAt |-> row.implementedAt]

\* getDecisionById of a decision that exists
getDecisionById(decisionId) == DecisionView(decisions[decisionId])

\* UPDATE decisions SET status = ? [, implemented_at = ?] WHERE id = ?
StatusUpdated(row, status) ==
    IF status = "implemented"
    THEN [row EXCEPT !.status = status, !.implementedAt = now]
    ELSE [row EXCEPT !.status = status]

updateDecisionStatus(decisionId, status) ==
    /\ decisions' = [i \in 1..Len(decisions) |->
                        IF i = decisionId
                        THEN StatusUpdated(decisions[i], status)
                        ELSE decisions[i]]
    /\ ret' = <<"updateDecisionStatus", decisionId, "void">>
    /\ UNCHANGED <<decision_outcomes, foreignKeys, now, baselineVars, decompVars, apiVars, opsVars>>

\* INSERT INTO decision_outcomes (...): the FOREIGN KEY clause rejects a
\* decision_id with no decisions row when the connection enforces it
OutcomeRow(decisionId, actualPct, evaluationDate, accuracy) ==
    [decisionId |-> decisionId,
     actualPct |-> actualPct,
     evaluationDate |-> evaluationDate,
     accuracyScore |-> accuracy]

InsertOutcomeAllowed(decisionId) == ~foreignKeys \/ DecisionExists(decisionId)

\* accuracy scores a caller of logOutcome passes, as <<numerator, denominator>>
AccuracyInputs == {<<1, 2>>}

logOutcome(decisionId, actualPct, accuracy) ==
    /\ Len(decision_outcomes) < MaxOutcomes
    /\ IF InsertOutcomeAllowed(decisionId)
       THEN /\ decision_outcomes' =
                  Append(decision_outcomes, OutcomeRow(decisionId, actualPct, now, accuracy))
            /\ ret' = <<"logOutcome", decisionId, "void">>
       ELSE /\ UNCHANGED decision_outcomes
            /\ ret' = <<"logOutcome", decisionId, "SqliteError">>
    /\ UNCHANGED <<decisions, foreignKeys, now, baselineVars, decompVars, apiVars, opsVars>>

----------------------------------------------------------------------------
(* OutcomeEvaluator *)

\* a differenceInDays that counts a started day as a day
differenceInDays_RoundUp(later, earlier) ==
    IF later >= earlier
    THEN (later - earlier + UnitsPerDay - 1) \div UnitsPerDay
    ELSE -((earlier - later + UnitsPerDay - 1) \div UnitsPerDay)

\* date-fns differenceInDays: the number of full days between two instants
differenceInDays(later, earlier) ==
    IF later >= earlier
    THEN (later - earlier) \div UnitsPerDay
    ELSE -((earlier - later) \div UnitsPerDay)

\* an accuracy that is not floored at zero
calculateAccuracy_NoFloor(predicted, actualPct) ==
    IF predicted.has
    THEN IF predicted.pct = 0 /\ actualPct = 0
         THEN <<1, 1>>
         ELSE LET m == Max(Abs(predicted.pct), Abs(actualPct))
                  e == Abs(predicted.pct - actualPct)
              IN <<m - e, m>>
    ELSE <<1, 2>>

\* calculateAccuracy, as the exact fraction <<numerator, denominator>>
calculateAccuracy(predicted, actualPct) ==
    IF predicted.has
    THEN IF predicted.pct = 0 /\ actualPct = 0
         THEN <<1, 1>>
         ELSE LET m == Max(Abs(predicted.pct), Abs(actualPct))
                  e == Abs(predicted.pct - actualPct)
              IN <<Max(0, m - e), m>>
    ELSE <<1, 2>>

\* generateEvaluationText: the tier of an accuracy <<numerator, denominator>>,
\* accuracy > 0.8, else accuracy > 0.5, else off
generateEvaluationText(accuracy) ==
    IF 10 * accuracy[1] > 8 * accuracy[2] THEN "highly accurate"
    ELSE IF 10 * accuracy[1] > 5 * accuracy[2] THEN "moderately accurate"
    ELSE "off"

\* the guard of evaluateDecision before any measuring: status and elapsed time
Evaluable(decisionId) ==
    /\ DecisionExists(decisionId)
    /\ decisions[decisionId].status = "implemented"
    /\ decisions[decisionId].implementedAt # NoTimestamp
    /\ ~(differenceInDays(now, decisions[decisionId].implementedAt) < MinDaysElapsed)

\* an evaluator that lost its restaurant branch
Measurable_ItemOnly(etype) == etype = "item"

\* measureItemImpact / measureRestaurantImpact exist for these entity types only
Measurable(etype) == etype = "item" \/ etype = "restaurant"

evaluateDecision(decisionId) ==
    /\ IF Evaluable(decisionId) /\ Measurable(decisions[decisionId].entityType)
       THEN \E actualPct \in ActualPcts :
              /\ Len(decision_outcomes) < MaxOutcomes
              /\ decision_outcomes' =
                    Append(decision_outcomes,
                           OutcomeRow(decisionId, actualPct, now,
                                      calculateAccuracy(getDecisionById(decisionId).predictedImpact,
                                                        actualPct)))
              /\ ret' = <<"evaluateDecision", decisionId, "EvaluationResult">>
       ELSE /\ UNCHANGED decision_outcomes
            /\ ret' = <<"evaluateDecision", decisionId, "null">>
    /\ UNCHANGED <<decisions, foreignKeys, now, baselineVars, decompVars, apiVars, opsVars>>

\* time passes
Tick ==
    /\ \E t \in Instants : t > now /\ now' = t
    /\ UNCHANGED <<trackerVars, baselineVars, decompVars, apiVars, opsVars>>

InitBaselineIdle ==
    /\ itemBaseline = <<>>
    /\ item_baselines = {}
    /\ baselineSeq = 0
    /\ saleTimes = <<>>
    /\ task = <<>>

InitTrackerIdle ==
    /\ decisions = <<>>
    /\ decision_outcomes = <<>>
    /\ foreignKeys = TRUE
    /\ ret = <<"none", 0, "none">>

InitDecompIdle == decomp = [engine |-> "none"] /\ insights = 0

InitApiIdle ==
    /\ store = [items |-> <<>>, orders |-> <<>>]
    /\ response = [route |-> "none"]
    /\ timeAggregate = <<>>

InitOpsIdle == recompute = <<>> /\ insight = <<>>

Init ==
    /\ decisions = <<>>
    /\ decision_outcomes = <<>>
    /\ now = 0
    /\ InitOpsIdle
    /\ foreignKeys \in BOOLEAN
    /\ ret = <<"none", 0, "none">>
    /\ InitBaselineIdle
    /\ InitDecompIdle
    /\ InitApiIdle

Next ==
    \/ \E etype \in EntityTypes, predicted \in PredictedImpacts :
          logRecommendation(ScopeId, etype, predicted)
    \/ \E id \in DecisionIds, status \in Statuses : updateDecisionStatus(id, status)
    \/ \E id \in DecisionIds, a \in ActualPcts, acc \in AccuracyInputs : logOutcome(id, a, acc)
    \/ \E id \in DecisionIds : evaluateDecision(id)
    \/ Tick

Spec == Init /\ [][Next]_vars

\* the evaluator's own traffic: no caller writes decision_outcomes directly
NextEvaluator ==
    \/ \E etype \in EntityTypes, predicted \in PredictedImpacts :
          logRecommendation(ScopeId, etype, predicted)
    \/ \E id \in DecisionIds, status \in Statuses : updateDecisionStatus(id, status)
    \/ \E id \in DecisionIds : evaluateDecision(id)
    \/ Tick

SpecEvaluator == Init /\ [][NextEvaluator]_vars

\* the tracker on its own, with and without a predicted revenue change
NextTracker ==
    \/ \E etype \in EntityTypes, predicted \in PredictedImpacts \cup {NoImpact} :
          logRecommendation(ScopeId, etype, predicted)
    \/ \E id \in DecisionIds, status \in Statuses : updateDecisionStatus(id, status)
    \/ \E id \in DecisionIds, actualPct \in ActualPcts, accuracy \in AccuracyInputs :
          logOutcome(id, actualPct, accuracy)

SpecTracker == Init /\ [][NextTracker]_vars

----------------------------------------------------------------------------
(* Item baselines: ComputationEngine (Prisma, async) and AnalyticsEngine    *)
(* (better-sqlite3, synchronous)                                            *)

Items == 1..MaxItems
Tasks == 1..MaxTasks

\* the calendar day of an instant: DATE(timestamp), format(d, 'yyyy-MM-dd')
Day(t) == t \div UnitsPerDay

subDays(t, days) == t - days * UnitsPerDay

\* an item's order lines before the model starts: one on each of the n days before day 0
History(n) == {subDays(0, k) : k \in 1..n}

\* the history lengths the store starts with, around the two minimums
SampleSizes == {MinDataPoints - 1, MinDataPoints, MinDataDays}

\* an order line for the item is ingested now
recordSale(item) ==
    /\ now \notin saleTimes[item]
    /\ saleTimes' = [saleTimes EXCEPT ![item] = @ \cup {now}]
    /\ UNCHANGED <<itemBaseline, item_baselines, baselineSeq, task, now, trackerVars, decompVars, apiVars, opsVars>>

IdleTask == [pc |-> "idle", item |-> 0, endDate |-> 0, n |-> 0, existing |-> 0, result |-> "none"]

InFlight == {t \in Tasks : task[t].pc # "idle"}

\* computeItemBaseline is called: endDate = new Date(), then the raw query is awaited
ceCall(t, item) ==
    /\ task[t].pc = "idle"
    /\ Len(itemBaseline) + Cardinality(InFlight) < MaxBaselineRows
    /\ task' = [task EXCEPT ![t] = [IdleTask EXCEPT !.pc = "called", !.item = item,
                                                   !.endDate = now]]
    /\ UNCHANGED <<itemBaseline, item_baselines, baselineSeq, saleTimes, now, trackerVars, decompVars, apiVars, opsVars>>

\* $queryRaw: the item's order lines with timestamp >= startDate, GROUP BY DATE
DailyData(item, startDate) == {Day(ts) : ts \in {x \in saleTimes[item] : x >= startDate}}

\* a query step that goes on whatever the number of daily rows
ceQuery_NoMinimum(t) ==
    /\ task[t].pc = "called"
    /\ LET n == Cardinality(DailyData(task[t].item, subDays(task[t].endDate, LookbackDefault)))
       IN task' = [task EXCEPT ![t].pc = "queried", ![t].n = n]
    /\ UNCHANGED <<itemBaseline, item_baselines, baselineSeq, saleTimes, now, trackerVars, decompVars, apiVars, opsVars>>

\* the query resolves; fewer than 5 daily rows end the call without a write
ceQuery(t) ==
    /\ task[t].pc = "called"
    /\ LET n == Cardinality(DailyData(task[t].item, subDays(task[t].endDate, LookbackDefault)))
       IN IF n < MinDataPoints
          THEN task' = [task EXCEPT ![t] = [IdleTask EXCEPT !.result = "insufficient"]]
          ELSE task' = [task EXCEPT ![t].pc = "queried", ![t].n = n]
    /\ UNCHANGED <<itemBaseline, item_baselines, baselineSeq, saleTimes, now, trackerVars, decompVars, apiVars, opsVars>>

\* itemBaseline.findFirst({ where: { menuItemId, periodEnd: endDate },
\* orderBy: { version: 'desc' } })?.version || 0
LatestVersion(item, endDate) ==
    LET vs == {itemBaseline[k].version :
                  k \in {j \in 1..Len(itemBaseline) :
                            /\ itemBaseline[j].menuItemId = item
                            /\ itemBaseline[j].periodEnd = endDate}}
    IN IF vs = {} THEN 0 ELSE CHOOSE v \in vs : \A w \in vs : w <= v

ceFindFirst(t) ==
    /\ task[t].pc = "queried"
    /\ task' = [task EXCEPT ![t].pc = "found",
                            ![t].existing = LatestVersion(task[t].item, task[t].endDate)]
    /\ UNCHANGED <<itemBaseline, item_baselines, baselineSeq, saleTimes, now, trackerVars, decompVars, apiVars, opsVars>>

\* itemBaseline.create({ data: { ..., version } }); the statistics columns are
\* functions of the daily rows, of which the row keeps the count
ceCreate(t) ==
    /\ task[t].pc = "found"
    /\ itemBaseline' = Append(itemBaseline,
                              [menuItemId |-> task[t].item,
                               periodStart |-> subDays(task[t].endDate, LookbackDefault),
                               periodEnd |-> task[t].endDate,
                               sampleSize |-> task[t].n,
                               version |-> task[t].existing + 1])
    /\ task' = [task EXCEPT ![t] = [IdleTask EXCEPT !.result = "created"]]
    /\ UNCHANGED <<item_baselines, baselineSeq, saleTimes, now, trackerVars, decompVars, apiVars, opsVars>>

\* AnalyticsEngine: DATE(timestamp) BETWEEN format(startDate) AND format(endDate)
DailyDataBetween(item, startDate, endDate) ==
    {d \in {Day(ts) : ts \in saleTimes[item]} : Day(startDate) <= d /\ d <= Day(endDate)}

\* INSERT OR REPLACE INTO item_baselines: UNIQUE(item_id, baseline_period_end)
\* deletes the row in conflict, and the new row takes the next AUTOINCREMENT id
InsertOrReplace(rows, row) ==
    {r \in rows : ~(r.itemId = row.itemId /\ r.periodEnd = row.periodEnd)} \cup {row}

aeComputeItemBaseline(item) ==
    LET startDate == subDays(now, LookbackDefault)
        n == Cardinality(DailyDataBetween(item, startDate, now))
    IN /\ baselineSeq < MaxBaselineRows
       /\ IF n < MinDataDays
          THEN /\ UNCHANGED <<item_baselines, baselineSeq>>
               /\ ret' = <<"computeItemBaseline", item, "null">>
          ELSE /\ item_baselines' =
                     InsertOrReplace(item_baselines,
                                     [id |-> baselineSeq + 1,
                                      itemId |-> item,
                                      periodStart |-> Day(startDate),
                                      periodEnd |-> Day(now),
                                      sampleSize |-> n,
                                      computedAt |-> now])
               /\ baselineSeq' = baselineSeq + 1
               /\ ret' = <<"computeItemBaseline", item, "ItemBaseline">>
       /\ UNCHANGED <<itemBaseline, saleTimes, task, now, decisions, decision_outcomes,
                      foreignKeys, decompVars, apiVars, opsVars>>

InitBaseline ==
    /\ InitTrackerIdle
    /\ InitDecompIdle
    /\ InitApiIdle
    /\ now = 0
    /\ InitOpsIdle
    /\ itemBaseline = <<>>
    /\ item_baselines = {}
    /\ baselineSeq = 0
    /\ saleTimes \in [Items -> {History(n) : n \in SampleSizes}]
    /\ task = [t \in Tasks |-> IdleTask]

\* recomputes run whenever they are asked for, and interleave at their awaits
NextBaseline ==
    \/ \E item \in Items : recordSale(item)
    \/ \E t \in Tasks, item \in Items : ceCall(t, item)
    \/ \E t \in Tasks : ceQuery(t)
    \/ \E t \in Tasks : ceFindFirst(t)
    \/ \E t \in Tasks : ceCreate(t)
    \/ \E item \in Items : aeComputeItemBaseline(item)
    \/ Tick

SpecBaseline == InitBaseline /\ [][NextBaseline]_vars

\* a caller that awaits each computeItemBaseline before the next one
ceCallSequential(t, item) == InFlight = {} /\ ceCall(t, item)

NextBaselineSeq ==
    \/ \E item \in Items : recordSale(item)
    \/ \E t \in Tasks, item \in Items : ceCallSequential(t, item)
    \/ \E t \in Tasks : ceQuery(t)
    \/ \E t \in Tasks : ceFindFirst(t)
    \/ \E t \in Tasks : ceCreate(t)
    \/ Tick

SpecBaselineSeq == InitBaseline /\ [][NextBaselineSeq]_vars

\* both engines within one instant, one call at a time
NextBaselineBoth ==
    \/ \E item \in Items : recordSale(item)
    \/ \E t \in Tasks, item \in Items : ceCallSequential(t, item)
    \/ \E t \in Tasks : ceQuery(t)
    \/ \E t \in Tasks : ceFindFirst(t)
    \/ \E t \in Tasks : ceCreate(t)
    \/ \E item \in Items : aeComputeItemBaseline(item)

SpecBaselineBoth == InitBaseline /\ [][NextBaselineBoth]_vars

----------------------------------------------------------------------------
(* Revenue decomposition: InsightEngine (SQL aggregates) and                *)
(* ExplainableInsightEngine (Prisma orders). JavaScript numbers are binary  *)
(* floating point: every arithmetic result is rounded to the nearest value  *)
(* with Precision significant bits, ties to even (Precision is 53 in the    *)
(* program). Values are integers here, so sums and products of small values *)
(* are exact and larger ones are rounded.                                   *)

RECURSIVE UlpFor(_, _, _)
UlpFor(a, den, s) == IF a < (2 ^ Precision) * s * den THEN s ELSE UlpFor(a, den, 2 * s)

\* num / den rounded to Precision significant bits, ties to even
RoundRat(num, den) ==
    LET a == Abs(num)
        s == UlpFor(a, den, 1)
        d == den * s
        q == a \div d
        r == a % d
        up == (2 * r > d) \/ (2 * r = d /\ q % 2 = 1)
        m == (IF up THEN q + 1 ELSE q) * s
    IN IF num >= 0 THEN m ELSE -m

FAdd(x, y) == RoundRat(x + y, 1)
FSub(x, y) == RoundRat(x - y, 1)
FMul(x, y) == RoundRat(x * y, 1)
FDiv(x, y) == RoundRat(x, y)

\* reduce((sum, x) => sum + x, 0)
RECURSIVE FSum(_)
FSum(xs) == IF xs = <<>> THEN 0 ELSE FAdd(FSum(SubSeq(xs, 1, Len(xs) - 1)), xs[Len(xs)])

RECURSIVE ISum(_)
ISum(xs) == IF xs = <<>> THEN 0 ELSE ISum(SubSeq(xs, 1, Len(xs) - 1)) + xs[Len(xs)]

\* the menu items, and the order lines <<quantity, price>> a period may hold
\* for one of them
DecompItemIds == {1, 2}
LineSeqs == {<<>>, <<<<3, 5>>>>, <<<<3, 11>>>>, <<<<1, 5>>, <<3, 11>>>>}
PeriodData == [DecompItemIds -> LineSeqs]

RECURSIVE Ascending(_)
Ascending(S) ==
    IF S = {} THEN <<>>
    ELSE LET lo == CHOOSE x \in S : \A y \in S : x <= y
         IN <<lo>> \o Ascending(S \ {lo})

Present(data) == {i \in DecompItemIds : data[i] # <<>>}

\* SELECT item_id, SUM(quantity), AVG(price), SUM(quantity * price) ... GROUP BY item_id
SqlRow(lines) ==
    [qty |-> ISum([k \in 1..Len(lines) |-> lines[k][1]]),
     avg_price |-> FDiv(FSum([k \in 1..Len(lines) |-> lines[k][2]]), Len(lines)),
     revenue |-> FSum([k \in 1..Len(lines) |-> FMul(lines[k][1], lines[k][2])])]

\* aggregateItemData: qty, revenue, avgPrice = revenue / qty
ItemData(lines) ==
    LET qty == ISum([k \in 1..Len(lines) |-> lines[k][1]])
        revenue == FSum([k \in 1..Len(lines) |-> FMul(lines[k][1], lines[k][2])])
    IN [qty |-> qty, revenue |-> revenue,
        avgPrice |-> IF qty > 0 THEN FDiv(revenue, qty) ELSE 0]

\* a residual that leaves the price effect out
Residual_NoPrice(total, volumeEffect, priceEffect) == FSub(total, volumeEffect)

\* mixEffect = revenueChange - volumeEffect - priceEffect
Residual(total, volumeEffect, priceEffect) == FSub(FSub(total, volumeEffect), priceEffect)

\* an explanation whose threshold is half of the total
generateExplanation_Half(volume, price, mix, total) ==
    IF total = 0 THEN [kind |-> "no change", factors |-> {}]
    ELSE LET factors == {f \in {"volume", "price", "mix"} :
                            LET x == IF f = "volume" THEN volume
                                     ELSE IF f = "price" THEN price ELSE mix
                            IN 10 * Abs(x) > 5 * Abs(total)}
         IN IF factors = {} THEN [kind |-> "minor fluctuations", factors |-> {}]
            ELSE [kind |-> "primarily because", factors |-> factors]

\* InsightEngine.generateExplanation: the sentence it picks and the factors it
\* names; Math.abs(x) > Math.abs(total) * 0.3 is compared as 10 |x| > 3 |total|
generateExplanation(volume, price, mix, total) ==
    IF total = 0 THEN [kind |-> "no change", factors |-> {}]
    ELSE LET factors == {f \in {"volume", "price", "mix"} :
                            LET x == IF f = "volume" THEN volume
                                     ELSE IF f = "price" THEN price ELSE mix
                            IN 10 * Abs(x) > 3 * Abs(total)}
         IN IF factors = {} THEN [kind |-> "minor fluctuations", factors |-> {}]
            ELSE [kind |-> "primarily because", factors |-> factors]

\* the RevenueDecomposition object built from the effects
RevenueDecomposition(revenueChange, volumeEffect, priceEffect) ==
    LET mixEffect == Residual(revenueChange, volumeEffect, priceEffect)
    IN [engine |-> "InsightEngine",
        revenueChange |-> revenueChange,
        volumeEffect |-> volumeEffect,
        priceEffect |-> priceEffect,
        mixEffect |-> mixEffect,
        explanation |-> generateExplanation(volumeEffect, priceEffect, mixEffect, revenueChange)]

\* InsightEngine.analyzeRevenueChange on the two query results
SqlDecomposition(cur, comp) ==
    LET curIds == Ascending(Present(cur))
        compIds == Ascending(Present(comp))
        c(i) == SqlRow(cur[i])
        p(i) == SqlRow(comp[i])
        totalCurrentRev == FSum([k \in 1..Len(curIds) |-> c(curIds[k]).revenue])
        totalComparisonRev == FSum([k \in 1..Len(compIds) |-> p(compIds[k]).revenue])
        revenueChange == FSub(totalCurrentRev, totalComparisonRev)
        volumeEffect ==
            FSum([k \in 1..Len(compIds) |->
                    LET i == compIds[k]
                        curQty == IF i \in Present(cur) THEN c(i).qty ELSE 0
                    IN FMul(curQty - p(i).qty, p(i).avg_price)])
        both == Ascending(Present(cur) \cap Present(comp))
        priceEffect ==
            FSum([k \in 1..Len(both) |->
                    LET i == both[k]
                    IN FMul(FSub(c(i).avg_price, p(i).avg_price), c(i).qty)])
    IN RevenueDecomposition(revenueChange, volumeEffect, priceEffect)

\* one order per item sold, totalAmount = the sum of quantity * price of its lines
OrderTotals(data) ==
    LET ids == Ascending(Present(data))
    IN [k \in 1..Len(ids) |->
          FSum([j \in 1..Len(data[ids[k]]) |-> FMul(data[ids[k]][j][1], data[ids[k]][j][2])])]

\* a confidence score that lost its cap
calculateConfidenceScore_NoCap(totalSamples, currentSamples, comparisonSamples) ==
    LET sampleConfidence == Min(1000, totalSamples * 5)
        balancePenalty == IF 2 * Min(currentSamples, comparisonSamples)
                                < Max(currentSamples, comparisonSamples)
                          THEN 8 ELSE 10
    IN (sampleConfidence * balancePenalty) \div 10

\* calculateConfidenceScore, in thousandths: Math.min(0.85, Math.min(1,
\* totalSamples / 200) * (balance < 0.5 ? 0.8 : 1.0))
calculateConfidenceScore(totalSamples, currentSamples, comparisonSamples) ==
    LET sampleConfidence == Min(1000, totalSamples * 5)
        balancePenalty == IF 2 * Min(currentSamples, comparisonSamples)
                                < Max(currentSamples, comparisonSamples)
                          THEN 8 ELSE 10
    IN Min(850, (sampleConfidence * balancePenalty) \div 10)

\* ExplainableInsightEngine.decomposeRevenueChange
decomposeRevenueChange(cur, comp, totalRevenueChange) ==
    LET allItemIds == Ascending(Present(cur)) \o Ascending(Present(comp) \ Present(cur))
        c(i) == ItemData(cur[i])
        p(i) == ItemData(comp[i])
        volumeEffect ==
            FSum([k \in 1..Len(allItemIds) |->
                    LET i == allItemIds[k]
                        curQty == IF i \in Present(cur) THEN c(i).qty ELSE 0
                    IN IF i \in Present(comp)
                       THEN FMul(curQty - p(i).qty, p(i).avgPrice)
                       ELSE 0])
        priceEffect ==
            FSum([k \in 1..Len(allItemIds) |->
                    LET i == allItemIds[k]
                    IN IF i \in Present(cur) /\ i \in Present(comp)
                       THEN FMul(c(i).qty, FSub(c(i).avgPrice, p(i).avgPrice))
                       ELSE 0])
    IN [engine |-> "ExplainableInsightEngine",
        revenueChange |-> totalRevenueChange,
        volumeEffect |-> volumeEffect,
        priceEffect |-> priceEffect,
        mixEffect |-> Residual(totalRevenueChange, volumeEffect, priceEffect)]

\* InsightEngine.analyzeRevenueChange: decomposes and stores an insight, always
analyzeRevenueChange(cur, comp) ==
    /\ insights < MaxInsights
    /\ decomp' = SqlDecomposition(cur, comp)
    /\ insights' = insights + 1
    /\ UNCHANGED <<trackerVars, now, baselineVars, apiVars, opsVars>>

\* ExplainableInsightEngine.analyzeRevenueChange: null when a period has no order
explainableAnalyzeRevenueChange(cur, comp) ==
    /\ insights < MaxInsights
    /\ IF Present(cur) = {} \/ Present(comp) = {}
       THEN /\ decomp' = [engine |-> "ExplainableInsightEngine.null"]
            /\ UNCHANGED insights
       ELSE LET d == decomposeRevenueChange(cur, comp,
                              FSub(FSum(OrderTotals(cur)), FSum(OrderTotals(comp))))
                nCur == Len(OrderTotals(cur))
                nComp == Len(OrderTotals(comp))
            IN /\ decomp' = [engine |-> d.engine,
                             revenueChange |-> d.revenueChange,
                             volumeEffect |-> d.volumeEffect,
                             priceEffect |-> d.priceEffect,
                             mixEffect |-> d.mixEffect,
                             confidenceScore |->
                                 calculateConfidenceScore(nCur + nComp, nCur, nComp)]
               /\ insights' = insights + 1
    /\ UNCHANGED <<trackerVars, now, baselineVars, apiVars, opsVars>>

InitDecomp ==
    /\ InitTrackerIdle
    /\ InitBaselineIdle
    /\ InitDecompIdle
    /\ InitApiIdle
    /\ now = 0
    /\ InitOpsIdle

NextDecomp ==
    \/ \E cur \in PeriodData, comp \in PeriodData : analyzeRevenueChange(cur, comp)
    \/ \E cur \in PeriodData, comp \in PeriodData : explainableAnalyzeRevenueChange(cur, comp)

SpecDecomp == InitDecomp /\ [][NextDecomp]_vars

\* the effects and totals the explanation is applied to beyond those of the
\* period data above: the values of either sign the arithmetic represents
EffectRange == 24
EffectValues == {x \in -EffectRange..EffectRange : RoundRat(x, 1) = x}

\* lines 120-135 of analyzeRevenueChange on the effects and the total at hand
applyGenerateExplanation ==
    /\ decomp.engine = "effects"
    /\ decomp' = RevenueDecomposition(decomp.revenueChange, decomp.volumeEffect,
                                      decomp.priceEffect)
    /\ UNCHANGED <<insights, trackerVars, now, baselineVars, apiVars, opsVars>>

InitExplanation ==
    /\ InitTrackerIdle
    /\ InitBaselineIdle
    /\ InitApiIdle
    /\ InitOpsIdle
    /\ now = 0
    /\ insights = 0
    /\ decomp \in [engine : {"effects"}, revenueChange : EffectValues,
                    volumeEffect : EffectValues, priceEffect : EffectValues]

NextExplanation == applyGenerateExplanation

SpecExplanation == InitExplanation /\ [][NextExplanation]_vars

----------------------------------------------------------------------------
(* The Prisma store and the API routes that read it: menu engineering and   *)
(* the decision generator. Quantities, prices and amounts are integers, and *)
(* a quotient is kept exact by comparing cross products or carried in       *)
(* hundredths rounded down, which preserves every comparison with an        *)
(* integer threshold and every Math.round.                                  *)

PopularityThreshold == 50
MarginThreshold == 680

MenuItemIds == {1, 2}

\* MenuItem rows: margins 680, 80 and 10
ItemSpecs ==
    {[sellingPrice |-> 1000, costPrice |-> 320, prepTime |-> 10],
     [sellingPrice |-> 100, costPrice |-> 20, prepTime |-> 20],
     [sellingPrice |-> 100, costPrice |-> 90, prepTime |-> 20]}

\* Order rows with their single OrderItem; the hour is that of the timestamp
OrderShapes ==
    {[status |-> "COMPLETED", channel |-> "delivery-direct", hour |-> 19, menuItemId |-> 1, quantity |-> 1],
     [status |-> "COMPLETED", channel |-> "zomato", hour |-> 15, menuItemId |-> 2, quantity |-> 1],
     [status |-> "COMPLETED", channel |-> "zomato", hour |-> 19, menuItemId |-> 1, quantity |-> 3],
     [status |-> "COMPLETED", channel |-> "delivery-direct", hour |-> 15, menuItemId |-> 2, quantity |-> 3],
     [status |-> "CANCELLED", channel |-> "delivery-direct", hour |-> 19, menuItemId |-> 1, quantity |-> 1],
     [status |-> "CANCELLED", channel |-> "zomato", hour |-> 15, menuItemId |-> 2, quantity |-> 3]}

Stores ==
    [items : [MenuItemIds -> ItemSpecs],
     orders : UNION {[1..n -> OrderShapes] : n \in 0..MaxOrders}]

\* OrderItem.price is the selling price of the item; Order.totalAmount is
\* price * quantity of its lines
LinePrice(s, o) == s.items[o.menuItemId].sellingPrice
TotalAmount(s, o) == LinePrice(s, o) * o.quantity

\* orders.filter(status === "COMPLETED") / where: { status: "COMPLETED" }
Completed(orders) == SelectSeq(orders, LAMBDA o : o.status = "COMPLETED")
CompletedOnly(s) == [s EXCEPT !.orders = Completed(s.orders)]

\* item.orderItems.reduce((sum, oi) => sum + oi.quantity, 0)
ItemOrders(orders, i) ==
    ISum([k \in 1..Len(orders) |-> IF orders[k].menuItemId = i THEN orders[k].quantity ELSE 0])

ItemRevenue(s, orders, i) ==
    ISum([k \in 1..Len(orders) |->
            IF orders[k].menuItemId = i THEN LinePrice(s, orders[k]) * orders[k].quantity ELSE 0])

\* Math.round of num / den (den > 0): the nearest integer, halves upwards
MathRound(num, den) ==
    LET t == 2 * num + den
        d == 2 * den
    IN IF t >= 0 THEN t \div d ELSE -((-t + d - 1) \div d)

\* popularity = avgOrdersPerItem > 0 ? Math.min(100, (orders / avgOrdersPerItem) * 50) : 0,
\* in hundredths: avgOrdersPerItem = totalOrders / (menuItems.length || 1)
Popularity100(orders, totalOrders, nItems) ==
    IF totalOrders > 0
    THEN Min(100 * 100, (orders * nItems * 50 * 100) \div totalOrders)
    ELSE 0

\* the README's quadrants, with strict comparisons on the high side
engineeringCategory_Strict(popularity100, margin) ==
    IF popularity100 > PopularityThreshold * 100 /\ margin > MarginThreshold THEN "Stars"
    ELSE IF popularity100 > PopularityThreshold * 100 /\ margin <= MarginThreshold THEN "Plowhorses"
    ELSE IF popularity100 <= PopularityThreshold * 100 /\ margin > MarginThreshold THEN "Puzzles"
    ELSE "Dogs"

\* the if / else-if chain of the menu-engineering route
engineeringCategory(popularity100, margin) ==
    IF popularity100 >= PopularityThreshold * 100 /\ margin >= MarginThreshold THEN "Stars"
    ELSE IF popularity100 >= PopularityThreshold * 100 /\ margin < MarginThreshold THEN "Plowhorses"
    ELSE IF popularity100 < PopularityThreshold * 100 /\ margin >= MarginThreshold THEN "Puzzles"
    ELSE "Dogs"

\* the rows of the menu-engineering response; no step of the route drops
\* the order items of orders that are not completed
MenuEngineering(s) ==
    LET totalOrders == ISum([k \in 1..Len(s.orders) |-> s.orders[k].quantity])
        n == Cardinality(MenuItemIds)
    IN [i \in MenuItemIds |->
          LET itemOrders == ItemOrders(s.orders, i)
              margin == s.items[i].sellingPrice - s.items[i].costPrice
              popularity100 == Popularity100(itemOrders, totalOrders, n)
          IN [popularity100 |-> popularity100,
              popularity |-> MathRound(popularity100, 100),
              orders |-> itemOrders,
              margin |-> margin,
              revenue |-> ItemRevenue(s, s.orders, i),
              engineeringCategory |-> engineeringCategory(popularity100, margin)]]

\* GET menu engineering: the include carries a where on the to-one relation
\* order, which Prisma either rejects (caught: status 500) or does not apply
GETMenuEngineering ==
    /\ \E rejected \in BOOLEAN :
          response' = IF rejected
                      THEN [route |-> "menu-engineering", success |-> FALSE]
                      ELSE [route |-> "menu-engineering", success |-> TRUE,
                            data |-> MenuEngineering(store)]
    /\ UNCHANGED <<store, timeAggregate, trackerVars, now, baselineVars, decompVars, opsVars>>

\* getMenuEngineering of the decisions route: completed orders only
getMenuEngineering(s) ==
    LET done == Completed(s.orders)
        totalOrders == ISum([k \in 1..Len(done) |-> done[k].quantity])
        n == Cardinality(MenuItemIds)
    IN [i \in MenuItemIds |->
          LET orders == ItemOrders(done, i)
          IN [id |-> i,
              popularity100 |-> Popularity100(orders, totalOrders, n),
              margin |-> s.items[i].sellingPrice - s.items[i].costPrice,
              orders |-> orders,
              price |-> s.items[i].sellingPrice,
              cost |-> s.items[i].costPrice,
              prepTime |-> IF s.items[i].prepTime = 0 THEN 10 ELSE s.items[i].prepTime]]

\* impact: { min: Math.round(impact * lo), max: Math.round(impact * hi), confidence },
\* with impact = num / den and the factors lo, hi in tenths
ImpactRange(num, den, lo10, hi10, confidence) ==
    [min |-> MathRound(num * lo10, den * 10),
     max |-> MathRound(num * hi10, den * 10),
     confidence |-> confidence]

\* Puzzles -> Promote: impact = orders * 0.45 * margin
PromoteDecision(item) ==
    IF item.popularity100 < PopularityThreshold * 100 /\ item.margin >= MarginThreshold
    THEN <<[id |-> <<"DEC-MENU", item.id>>, action |-> "Promote", item |-> item.id,
            priority |-> IF item.margin > 1000 THEN "high" ELSE "medium",
            impact |-> ImpactRange(item.orders * 45 * item.margin, 100, 7, 12, 75)]>>
    ELSE <<>>

\* Plowhorses -> Reprice: impact = orders * 0.75 * newMargin - orders * margin
RepriceDecision(item) ==
    IF /\ item.popularity100 >= PopularityThreshold * 100
       /\ item.margin < MarginThreshold
       /\ item.margin > 0
    THEN LET priceIncrease == MathRound(item.price * 15, 100)
             newMargin == (item.price + priceIncrease) - item.cost
         IN <<[id |-> <<"DEC-PRICE", item.id>>, action |-> "Reprice", item |-> item.id,
               priority |-> IF item.orders > 200 THEN "high" ELSE "medium",
               impact |-> ImpactRange(item.orders * (3 * newMargin - 4 * item.margin), 4,
                                      8, 11, 70)]>>
    ELSE <<>>

\* a Remove rule that does not look at the popularity
RemoveDecision_AnyPopularity(item) ==
    LET impact10 == item.orders * (23 * item.prepTime - 10 * item.margin)
    IN IF /\ item.margin < MarginThreshold
          /\ item.prepTime > 15
          /\ impact10 > 0
       THEN <<[id |-> <<"DEC-REMOVE", item.id>>, action |-> "Remove", item |-> item.id,
               priority |-> "medium",
               impact |-> ImpactRange(impact10, 10, 6, 14, 65)]>>
       ELSE <<>>

\* Dogs with a long preparation -> Remove, when the opportunity cost
\* prepTime * orders * 2.3 exceeds orders * margin
RemoveDecision(item) ==
    LET impact10 == item.orders * (23 * item.prepTime - 10 * item.margin)
    IN IF /\ item.popularity100 < PopularityThreshold * 100
          /\ item.margin < MarginThreshold
          /\ item.prepTime > 15
          /\ impact10 > 0
       THEN <<[id |-> <<"DEC-REMOVE", item.id>>, action |-> "Remove", item |-> item.id,
               priority |-> "medium",
               impact |-> ImpactRange(impact10, 10, 6, 14, 65)]>>
       ELSE <<>>

RECURSIVE MenuDecisions(_, _)
MenuDecisions(menuData, ids) ==
    IF ids = <<>> THEN <<>>
    ELSE LET item == menuData[Head(ids)]
         IN PromoteDecision(item) \o RepriceDecision(item) \o RemoveDecision(item)
              \o MenuDecisions(menuData, Tail(ids))

\* the channels of a set, as a list
ChannelOrder == <<"delivery-direct", "zomato", "swiggy">>
ChannelList(S) == SelectSeq(ChannelOrder, LAMBDA c : c \in S)

\* channel.includes("zomato") || channel.includes("swiggy")
IsAggregator(channel) == channel \in {"zomato", "swiggy"}

\* getChannelMetrics for one channel: revenue, and net margin in quarters
\* (platform fees are 25% of revenue on the aggregators)
ChannelRevenue(s, channel) ==
    LET done == Completed(s.orders)
    IN ISum([k \in 1..Len(done) |->
               IF done[k].channel = channel THEN TotalAmount(s, done[k]) ELSE 0])

ChannelNetMargin4(s, channel) ==
    LET done == Completed(s.orders)
        gross == ISum([k \in 1..Len(done) |->
                         IF done[k].channel = channel
                         THEN (LinePrice(s, done[k]) - s.items[done[k].menuItemId].costPrice)
                                 * done[k].quantity
                         ELSE 0])
    IN 4 * gross - (IF IsAggregator(channel) THEN ChannelRevenue(s, channel) ELSE 0)

Channels(s) == {Completed(s.orders)[k].channel : k \in 1..Len(Completed(s.orders))}

\* channel mix: impact = (currentSplit - 0.3) * aggregatorTotal * 0.5
ChannelDecision(s) ==
    LET aggregators == {c \in Channels(s) : IsAggregator(c)}
        aggs == ChannelList(aggregators)
        aggregatorTotal == ISum([k \in 1..Len(aggs) |-> ChannelRevenue(s, aggs[k])])
        aggregatorMargin4 == ISum([k \in 1..Len(aggs) |-> ChannelNetMargin4(s, aggs[k])])
        directMargin4 == ChannelNetMargin4(s, "delivery-direct")
        total == aggregatorTotal + ChannelRevenue(s, "delivery-direct")
    IN IF /\ "delivery-direct" \in Channels(s)
          /\ aggregators # {}
          /\ directMargin4 * Cardinality(aggregators) > aggregatorMargin4
       THEN <<[id |-> <<"DEC-CHANNEL", 1>>, action |-> "Optimize",
               item |-> "Delivery Channel Mix", priority |-> "high",
               impact |-> ImpactRange(aggregatorTotal * (10 * aggregatorTotal - 3 * total),
                                      20 * total, 7, 13, 75)]>>
       ELSE <<>>

\* getCapacityMetrics: the completed orders of the hours lo..hi
HourOrders(s, lo, hi) ==
    SelectSeq(Completed(s.orders), LAMBDA o : o.hour >= lo /\ o.hour <= hi)

HourCount(s, lo, hi) == Cardinality({HourOrders(s, lo, hi)[k].hour : k \in 1..Len(HourOrders(s, lo, hi))})

HourRevenue(s, lo, hi) ==
    ISum([k \in 1..Len(HourOrders(s, lo, hi)) |-> TotalAmount(s, HourOrders(s, lo, hi)[k])])

\* peak capacity: improvement = (peakRevPASH - offPeakRevPASH) * 0.11 * 104 * 3,
\* RevPASH = revenue / (hours * 104)
CapacityDecision(s) ==
    LET peakN == HourCount(s, 18, 21)
        offN == HourCount(s, 14, 17)
        peakRev == HourRevenue(s, 18, 21)
        offRev == HourRevenue(s, 14, 17)
    IN IF peakN > 0 /\ offN > 0 /\ peakRev * offN > 2 * offRev * peakN
       THEN <<[id |-> <<"DEC-CAPACITY", 1>>, action |-> "Optimize",
               item |-> "Peak Hour Capacity", priority |-> "medium",
               impact |-> ImpactRange((peakRev * offN - offRev * peakN) * 33,
                                      100 * peakN * offN, 8, 12, 65)]>>
       ELSE <<>>

\* the decision list of the route once the store is known to hold an order
generateDecisions(s) ==
    MenuDecisions(getMenuEngineering(s), Ascending(MenuItemIds))
        \o ChannelDecision(s) \o CapacityDecision(s)

\* GET decisions: prisma.order.count() === 0 answers with an empty list
GETDecisions ==
    /\ response' = [route |-> "decisions", success |-> TRUE,
                    data |-> IF Len(store.orders) = 0 THEN <<>> ELSE generateDecisions(store)]
    /\ UNCHANGED <<store, timeAggregate, trackerVars, now, baselineVars, decompVars, opsVars>>

\* computeDailyAggregate's statistics of the day the store's orders fall on:
\* none when findMany returns no order
DailyStats(s) ==
    IF Len(s.orders) = 0 THEN {}
    ELSE {[totalRevenue |-> ISum([k \in 1..Len(s.orders) |-> TotalAmount(s, s.orders[k])]),
           totalOrders |-> Len(s.orders),
           totalItems |-> Len(s.orders),
           uniqueItems |-> Cardinality({s.orders[k].menuItemId : k \in 1..Len(s.orders)})]}

\* timeAggregate.findFirst({ where: { periodType: 'day', periodStart },
\* orderBy: { version: 'desc' } })?.version || 0
LatestAggregateVersion ==
    LET vs == {timeAggregate[k].version : k \in 1..Len(timeAggregate)}
    IN IF vs = {} THEN 0 ELSE CHOOSE v \in vs : \A w \in vs : w <= v

\* ComputationEngine.computeDailyAggregate for the day of the store's orders
computeDailyAggregate ==
    /\ Len(timeAggregate) < MaxAggregates
    /\ IF DailyStats(store) = {}
       THEN /\ UNCHANGED timeAggregate
            /\ response' = [route |-> "computeDailyAggregate", created |-> FALSE]
       ELSE /\ timeAggregate' =
                  Append(timeAggregate,
                         [stats |-> CHOOSE r \in DailyStats(store) : TRUE,
                          version |-> LatestAggregateVersion + 1])
            /\ response' = [route |-> "computeDailyAggregate", created |-> TRUE]
    /\ UNCHANGED <<store, trackerVars, now, baselineVars, decompVars, opsVars>>

InitApi ==
    /\ InitTrackerIdle
    /\ InitBaselineIdle
    /\ InitDecompIdle
    /\ now = 0
    /\ InitOpsIdle
    /\ store \in Stores
    /\ response = [route |-> "none"]
    /\ timeAggregate = <<>>

NextApi ==
    \/ GETMenuEngineering
    \/ GETDecisions
    \/ computeDailyAggregate

SpecApi == InitApi /\ [][NextApi]_vars

----------------------------------------------------------------------------
(* The confidence scores of the engines, applied to sample counts and to    *)
(* daily series beyond those the stores above produce                        *)

\* numbers of orders in the two periods of a decomposition
SampleCounts == {1, 2, 40, 100, 170, 400}

\* daily quantities of an item over its lookback window
DailySeries ==
    {[k \in 1..5 |-> 2],
     <<1, 2, 3, 4, 5>>,
     <<0, 0, 0, 0, 10>>,
     <<0, 0, 0, 0, 0>>,
     [k \in 1..30 |-> 3],
     [k \in 1..40 |-> IF k % 2 = 0 THEN 4 ELSE 2]}

\* Math.sqrt, rounded down
Sqrt(x) == CHOOSE r \in 0..(x + 1) : r * r <= x /\ (r + 1) * (r + 1) > x

\* stdDev(quantities) / mean(quantities) in hundredths:
\* sqrt(n * sum(x^2) - sum(x)^2) / sum(x)
CoefficientOfVariation100(quantities) ==
    LET n == Len(quantities)
        sum == ISum(quantities)
        sumSq == ISum([k \in 1..n |-> quantities[k] * quantities[k]])
    IN IF sum > 0
       THEN (Sqrt(n * sumSq - sum * sum) * 100) \div sum
       ELSE 100

\* confidence = Math.max(0, (1 - cv) * Math.min(1, length / 30)), in hundredths
BaselineConfidence100(quantities) ==
    LET cv == CoefficientOfVariation100(quantities)
        coverage == Min(100, (Len(quantities) * 100) \div 30)
        product == (100 - cv) * coverage
    IN Max(0, IF product >= 0 THEN product \div 100 ELSE -((-product) \div 100))

applyCalculateConfidenceScore(currentSamples, comparisonSamples) ==
    /\ response' = [route |-> "calculateConfidenceScore",
                    currentSamples |-> currentSamples,
                    comparisonSamples |-> comparisonSamples,
                    confidenceScore |->
                        calculateConfidenceScore(currentSamples + comparisonSamples,
                                                 currentSamples, comparisonSamples)]
    /\ UNCHANGED <<store, timeAggregate, trackerVars, now, baselineVars, decompVars, opsVars>>

applyBaselineConfidence(quantities) ==
    /\ response' = [route |-> "computeItemBaseline.confidence",
                    sampleSize |-> Len(quantities),
                    confidenceScore |-> BaselineConfidence100(quantities)]
    /\ UNCHANGED <<store, timeAggregate, trackerVars, now, baselineVars, decompVars, opsVars>>

NextScores ==
    \/ GETDecisions
    \/ \E cur \in SampleCounts, comp \in SampleCounts : applyCalculateConfidenceScore(cur, comp)
    \/ \E quantities \in DailySeries : applyBaselineConfidence(quantities)

SpecScores == InitApi /\ [][NextScores]_vars

----------------------------------------------------------------------------
(* The accuracy score of the outcome evaluator over predicted and measured  *)
(* percent changes of either sign                                            *)

AccuracyPcts == {-10, -8, -3, -1, 0, 1, 3, 8, 10, 12}

\* the accuracy and the evaluation text evaluateDecision computes from the
\* predicted impact and the measured revenue_change_pct
applyCalculateAccuracy(predicted, actualPct) ==
    /\ response' = [route |-> "calculateAccuracy",
                    predicted |-> predicted,
                    actual |-> actualPct,
                    accuracy |-> calculateAccuracy(predicted, actualPct),
                    evaluation |->
                        generateEvaluationText(calculateAccuracy(predicted, actualPct))]
    /\ UNCHANGED <<store, timeAggregate, trackerVars, now, baselineVars, decompVars, opsVars>>

InitAccuracy ==
    /\ InitTrackerIdle
    /\ InitBaselineIdle
    /\ InitDecompIdle
    /\ InitApiIdle
    /\ now = 0
    /\ InitOpsIdle

NextAccuracy ==
    \E predicted \in {Impact(p) : p \in AccuracyPcts} \cup {NoImpact}, actualPct \in AccuracyPcts :
        applyCalculateAccuracy(predicted, actualPct)

SpecAccuracy == InitAccuracy /\ [][NextAccuracy]_vars

----------------------------------------------------------------------------
(* Properties of the decision tracker and the outcome evaluator *)

\* the transitions of the documented state machine
LegalTransition(from, to) ==
    \/ to = "dismissed"
    \/ <<from, to>> \in {<<"pending", "accepted">>, <<"pending", "rejected">>,
                         <<"pending", "implemented">>, <<"accepted", "implemented">>}

\* C1: updateDecisionStatus succeeds only on a legal transition; every other
\* call fails with InvalidTransition and leaves the decisions table (status
\* and implementation timestamp) unchanged.
C1_IllegalTransitionRejected ==
    [][\A id \in DecisionIds, st \in Statuses :
          (/\ DecisionExists(id)
           /\ updateDecisionStatus(id, st)
           /\ ~LegalTransition(decisions[id].status, st))
          => (/\ ret' = <<"updateDecisionStatus", id, "InvalidTransition">>
              /\ decisions' = decisions)]_vars

\* C2: a rejected or dismissed decision never again becomes pending, accepted
\* or implemented, and a decision that took one of the terminal statuses
\* rejected / implemented never afterwards takes the other.
C2_NoResurrection ==
    [][\A i \in 1..Len(decisions) :
          /\ decisions[i].status \in {"rejected", "dismissed"}
                => decisions'[i].status \in {"rejected", "dismissed"}
          /\ decisions[i].status \in {"rejected", "implemented"}
                => decisions'[i].status \in {decisions[i].status, "dismissed"}]_vars

\* the maturation window in ticks, and the claims' precondition in their own
\* words: implemented, at least seven days ago
MaturationTicks == MinDaysElapsed * UnitsPerDay

Mature(id) ==
    /\ decisions[id].status = "implemented"
    /\ decisions[id].implementedAt # NoTimestamp
    /\ now - decisions[id].implementedAt >= MaturationTicks

\* C3: evaluateDecision on a decision that is not implemented, or implemented
\* fewer than 7 days ago, returns null and adds no decision_outcomes row.
C3_OutcomeGating ==
    [][\A id \in DecisionIds :
          (DecisionExists(id) /\ evaluateDecision(id) /\ ~Mature(id))
          => (/\ ret' = <<"evaluateDecision", id, "null">>
              /\ decision_outcomes' = decision_outcomes)]_vars

\* C3 witness: evaluateDecision returned null on a decision implemented six
\* and a half days ago
C3_Witness ==
    \E id \in DecisionIds :
        /\ DecisionExists(id)
        /\ ret = <<"evaluateDecision", id, "null">>
        /\ decisions[id].status = "implemented"
        /\ now - decisions[id].implementedAt = MaturationTicks - 1
        /\ decision_outcomes = <<>>

OutcomesOf(id) == {k \in 1..Len(decision_outcomes) : decision_outcomes[k].decisionId = id}

\* C4: whatever evaluateDecision calls are made, a decision has at most one
\* decision_outcomes row.
C4_OneOutcomePerDecision ==
    \A id \in DecisionIds : Cardinality(OutcomesOf(id)) <= 1

\* C5: every decision_outcomes row is written for an existing decision that
\* is implemented, with at least 7 days elapsed, at the time of the write.
C5_OutcomesOnlyForMature ==
    [][\A k \in (Len(decision_outcomes) + 1)..Len(decision_outcomes') :
          /\ DecisionExists(decision_outcomes'[k].decisionId)
          /\ Mature(decision_outcomes'[k].decisionId)]_vars

\* evaluateDecision(id) returned a result and recorded one outcome for id
Evaluated(id) ==
    /\ ret' = <<"evaluateDecision", id, "EvaluationResult">>
    /\ Len(decision_outcomes') = Len(decision_outcomes) + 1
    /\ SubSeq(decision_outcomes', 1, Len(decision_outcomes)) = decision_outcomes
    /\ decision_outcomes'[Len(decision_outcomes')].decisionId = id

----------------------------------------------------------------------------
(* Properties of the baseline engines *)

RowsOfItem(item) == {k \in 1..Len(itemBaseline) : itemBaseline[k].menuItemId = item}

\* C7: sequential computeItemBaseline calls for one item write strictly
\* increasing versions: each new row's version is greater than that of every
\* earlier row of the item, so no two rows of an item share a version.
C7_VersionsStrictlyIncrease ==
    \A item \in Items : \A j, k \in RowsOfItem(item) :
        j < k => itemBaseline[j].version < itemBaseline[k].version

\* C8: interleaved computeItemBaseline calls for one item never leave two
\* baseline rows of that item with the same version number.
C8_NoDuplicateVersion ==
    \A item \in Items : \A j, k \in RowsOfItem(item) :
        j # k => itemBaseline[j].version # itemBaseline[k].version

\* C9: baselines are append-only in both engines: a step never changes or
\* removes a baseline row that was already written.
C9_BaselinesAppendOnly ==
    [][/\ Len(itemBaseline') >= Len(itemBaseline)
       /\ SubSeq(itemBaseline', 1, Len(itemBaseline)) = itemBaseline
       /\ item_baselines \subseteq item_baselines']_vars

----------------------------------------------------------------------------
(* Properties of the revenue decomposition *)

Decomposed == decomp.engine \in {"InsightEngine", "ExplainableInsightEngine"}

\* volumeEffect + priceEffect + mixEffect, as the program would add them
EffectSum == FAdd(FAdd(decomp.volumeEffect, decomp.priceEffect), decomp.mixEffect)

InsufficientData(d) == d.engine = "ExplainableInsightEngine.null"

\* C11: when the current or the comparison period holds no order,
\* analyzeRevenueChange (either engine) returns the insufficient-data result
\* instead of a decomposition and stores no insight.
C11_ZeroOrdersInsufficientData ==
    [][\A cur \in PeriodData, comp \in PeriodData :
          (/\ Present(cur) = {} \/ Present(comp) = {}
           /\ analyzeRevenueChange(cur, comp) \/ explainableAnalyzeRevenueChange(cur, comp))
          => (InsufficientData(decomp') /\ insights' = insights)]_vars

----------------------------------------------------------------------------
(* Properties of the menu classification and the decision generator *)

MenuAnswered == response.route = "menu-engineering" /\ response.success

Categories == {"Stars", "Plowhorses", "Puzzles", "Dogs"}

DecisionsAnswered == response.route = "decisions" /\ response.success

\* C13: every decision of the decisions response (Promote, Reprice, Remove,
\* channel Optimize, capacity Optimize) has impact.min <= impact.max.
C13_ImpactOrdered ==
    DecisionsAnswered =>
        \A k \in 1..Len(response.data) :
            response.data[k].impact.min <= response.data[k].impact.max

\* C14: every confidence score stays inside its scale: the decomposition
\* confidence in [0, 0.85], the baseline confidence in [0, 1], and the
\* confidence of every generated decision in [0, 100].
C14_ConfidenceBounds ==
    /\ response.route = "calculateConfidenceScore"
          => (0 <= response.confidenceScore /\ response.confidenceScore <= 850)
    /\ response.route = "computeItemBaseline.confidence"
          => (0 <= response.confidenceScore /\ response.confidenceScore <= 100)
    /\ DecisionsAnswered
          => \A k \in 1..Len(response.data) :
                 /\ 0 <= response.data[k].impact.confidence
                 /\ response.data[k].impact.confidence <= 100

\* C14 witness: a decomposition over 200 or more balanced samples, whose
\* score is held at the cap 0.85
C14_Witness ==
    /\ response.route = "calculateConfidenceScore"
    /\ response.currentSamples + response.comparisonSamples >= 200
    /\ response.currentSamples = response.comparisonSamples
    /\ response.confidenceScore = 850

\* what the decisions route answers over a store
DecisionList(s) == IF Len(s.orders) = 0 THEN <<>> ELSE generateDecisions(s)

\* the statistics of the daily aggregate row the last run wrote, if any
WrittenStats ==
    IF response.created THEN {timeAggregate[Len(timeAggregate)].stats} ELSE {}

\* C15: only completed orders participate in analytics: the daily aggregate
\* and the generated decisions over a store equal those over the store
\* without its orders that are not completed.
C15_OnlyCompletedOrdersCount ==
    /\ DecisionsAnswered => response.data = DecisionList(CompletedOnly(store))
    /\ response.route = "computeDailyAggregate"
          => WrittenStats = DailyStats(CompletedOnly(store))

----------------------------------------------------------------------------
(* Further properties of the decision tracker *)

----------------------------------------------------------------------------
(* Properties of the accuracy score *)

AccuracyComputed == response.route = "calculateAccuracy"

\* C17: for predicted revenue_change_pct = 10 and measured 8 the accuracy is
\* 0.8 and the evaluation text is the highly accurate tier.
C17_TenVersusEightHighlyAccurate ==
    (/\ AccuracyComputed
     /\ response.predicted = Impact(10)
     /\ response.actual = 8)
    => /\ 10 * response.accuracy[1] = 8 * response.accuracy[2]
       /\ response.evaluation = "highly accurate"

\* C18: the accuracy lies in [0, 1]; it is 1 when predicted and actual are
\* both zero, otherwise max(0, 1 - |predicted - actual| / max(|predicted|,
\* |actual|)): 1 exactly when they are equal, 0 when their signs are opposite.
C18_AccuracyInUnitInterval ==
    (AccuracyComputed /\ response.predicted.has) =>
        LET p == response.predicted.pct
            a == response.actual
            num == response.accuracy[1]
            den == response.accuracy[2]
        IN /\ den > 0
           /\ 0 <= num /\ num <= den
           /\ (p = 0 /\ a = 0) => num = den
           /\ ~(p = 0 /\ a = 0) =>
                 num * Max(Abs(p), Abs(a)) = den * Max(0, Max(Abs(p), Abs(a)) - Abs(p - a))
           /\ (num = den) <=> (p = a)
           /\ (p * a < 0) => num = 0

\* C18 witness: a prediction and a measurement of opposite signs, scored 0
C18_Witness ==
    /\ AccuracyComputed
    /\ response.predicted.has
    /\ response.predicted.pct * response.actual < 0
    /\ response.accuracy[1] = 0

----------------------------------------------------------------------------
(* Further properties of the baseline engines *)

\* the distinct days with sales that a call made now finds in its window
DaysFound(item) == Cardinality(DailyData(item, subDays(now, LookbackDefault)))
DaysFoundBetween(item) ==
    Cardinality(DailyDataBetween(item, subDays(now, LookbackDefault), now))

\* C19: computeItemBaseline for an item with 4 or fewer distinct days of sales
\* in the lookback window ends with the insufficient-data result and writes
\* no baseline row, in both engines (a row is only ever created by a call
\* whose query found at least 5 days).
C19_FourDaysInsufficient ==
    [][/\ \A t \in Tasks :
            (/\ ceQuery(t)
             /\ Cardinality(DailyData(task[t].item,
                                      subDays(task[t].endDate, LookbackDefault))) <= 4)
            => /\ task'[t].pc = "idle"
               /\ task'[t].result = "insufficient"
               /\ itemBaseline' = itemBaseline
       /\ \A t \in Tasks : ceCreate(t) => task[t].n > 4
       /\ \A item \in Items :
            (aeComputeItemBaseline(item) /\ DaysFoundBetween(item) <= 4)
            => /\ ret' = <<"computeItemBaseline", item, "null">>
               /\ item_baselines' = item_baselines]_vars

\* C19 witness: a call for an item with exactly 4 days of sales has ended as
\* insufficient and no baseline row exists
C19_Witness ==
    /\ \E t \in Tasks : task[t].result = "insufficient"
    /\ \E item \in Items : DaysFound(item) = 4
    /\ itemBaseline = <<>>
    /\ item_baselines = {}

\* C20: when the store holds no completed order, the decisions route answers
\* successfully with an empty decision list.
C20_NoCompletedOrdersEmptyList ==
    (response.route = "decisions" /\ Len(Completed(store.orders)) = 0)
        => response.success /\ response.data = <<>>

----------------------------------------------------------------------------
(* ComputationEngine.recomputeAll: time aggregates, baselines, insights, as *)
(* a chain of awaits. Each await of a Prisma call is a step of its own, and  *)
(* any Prisma call either answers or rejects (store unreachable). The runs   *)
(* are for the day the store's orders fall on, a day that is neither a       *)
(* Sunday nor a month end, so recomputeTimeAggregates is                     *)
(* computeDailyAggregate alone.                                              *)

MaxRuns == 2

Runs == 1..MaxRuns

\* the stores the runs read: no order, or up to MaxOrders orders of one day
DayStores ==
    {[items |-> [i \in MenuItemIds |->
                    [sellingPrice |-> 100, costPrice |-> 20, prepTime |-> 20]],
      orders |-> [k \in 1..n |->
                    [status |-> "COMPLETED", channel |-> "zomato", hour |-> 15,
                     menuItemId |-> 1, quantity |-> k]]] : n \in 0..MaxOrders}

IdleRun ==
    [pc |-> "idle", steps |-> <<>>, version |-> 0, daily |-> "none",
     threw |-> "none", outcome |-> "none"]

RunInFlight == {r \in Runs : recompute[r].pc \notin {"idle", "done", "failed"}}

\* a catch block that logs the error and does not rethrow it
recomputeCatch_Swallow(run, step) ==
    [run EXCEPT !.pc = "failed", !.threw = step, !.outcome = "resolved"]

\* catch (error) { console.error(...); throw error }: the promise of
\* recomputeAll rejects with the error of the step
recomputeCatch(run, step) ==
    [run EXCEPT !.pc = "failed", !.threw = step, !.outcome = "rejected"]

\* recomputeAll is called: it runs up to its first await, the order query
recomputeAll(r) ==
    /\ recompute[r].pc = "idle"
    /\ recompute' = [recompute EXCEPT ![r] =
                        [IdleRun EXCEPT !.pc = "findMany",
                                        !.steps = <<"timeAggregates">>,
                                        !.outcome = "pending"]]
    /\ UNCHANGED <<trackerVars, now, baselineVars, decompVars, apiVars, insight>>

\* order.findMany answers or rejects; without orders computeDailyAggregate
\* returns and recomputeAll goes on to the baselines
cdaFindMany(r, ok) ==
    /\ recompute[r].pc = "findMany"
    /\ recompute' = [recompute EXCEPT ![r] =
          IF ~ok THEN recomputeCatch([@ EXCEPT !.daily = "threw"], "timeAggregates")
          ELSE IF Len(store.orders) = 0
               THEN [@ EXCEPT !.pc = "baselines", !.daily = "insufficient",
                              !.steps = Append(@, "baselines")]
               ELSE [@ EXCEPT !.pc = "findFirst"]]
    /\ UNCHANGED <<trackerVars, now, baselineVars, decompVars, apiVars, insight>>

\* a findFirst whose version is not incremented
cdaFindFirst_NoIncrement(r, ok) ==
    /\ recompute[r].pc = "findFirst"
    /\ recompute' = [recompute EXCEPT ![r] =
          IF ~ok THEN recomputeCatch([@ EXCEPT !.daily = "threw"], "timeAggregates")
          ELSE [@ EXCEPT !.pc = "create", !.version = LatestAggregateVersion]]
    /\ UNCHANGED <<trackerVars, now, baselineVars, decompVars, apiVars, insight>>

\* timeAggregate.findFirst answers with the latest row of the day, or rejects
cdaFindFirst(r, ok) ==
    /\ recompute[r].pc = "findFirst"
    /\ recompute' = [recompute EXCEPT ![r] =
          IF ~ok THEN recomputeCatch([@ EXCEPT !.daily = "threw"], "timeAggregates")
          ELSE [@ EXCEPT !.pc = "create", !.version = LatestAggregateVersion + 1]]
    /\ UNCHANGED <<trackerVars, now, baselineVars, decompVars, apiVars, insight>>

\* timeAggregate.create writes the row, or rejects and writes nothing
cdaCreate(r, ok) ==
    /\ recompute[r].pc = "create"
    /\ IF ok
       THEN /\ timeAggregate' =
                  Append(timeAggregate,
                         [stats |-> CHOOSE st \in DailyStats(store) : TRUE,
                          version |-> recompute[r].version])
            /\ recompute' = [recompute EXCEPT ![r] =
                  [@ EXCEPT !.pc = "baselines", !.daily = "written",
                            !.steps = Append(@, "baselines")]]
       ELSE /\ UNCHANGED timeAggregate
            /\ recompute' = [recompute EXCEPT ![r] =
                  recomputeCatch([@ EXCEPT !.daily = "threw"], "timeAggregates")]
    /\ UNCHANGED <<store, response, trackerVars, now, baselineVars, decompVars, insight>>

\* recomputeBaselines: menuItem.findMany and one computeItemBaseline per item;
\* the orders of a store fall on one day, fewer than MinDataPoints days, so
\* every computeItemBaseline returns without a write, unless a query rejects
recomputeBaselines(r, ok) ==
    /\ recompute[r].pc = "baselines"
    /\ recompute' = [recompute EXCEPT ![r] =
          IF ~ok THEN recomputeCatch(@, "baselines")
          ELSE [@ EXCEPT !.pc = "insights", !.steps = Append(@, "insights")]]
    /\ UNCHANGED <<trackerVars, now, baselineVars, decompVars, apiVars, insight>>

\* generateInsights has an empty body; recomputeAll then resolves
generateInsights(r) ==
    /\ recompute[r].pc = "insights"
    /\ recompute' = [recompute EXCEPT ![r] = [@ EXCEPT !.pc = "done", !.outcome = "resolved"]]
    /\ UNCHANGED <<trackerVars, now, baselineVars, decompVars, apiVars, insight>>

InitRecompute ==
    /\ InitTrackerIdle
    /\ InitBaselineIdle
    /\ InitDecompIdle
    /\ now = 0
    /\ store \in DayStores
    /\ response = [route |-> "none"]
    /\ timeAggregate = <<>>
    /\ insight = <<>>
    /\ recompute = [r \in Runs |-> IdleRun]

\* callers that do not wait for one another
NextRecompute ==
    \/ \E r \in Runs : recomputeAll(r)
    \/ \E r \in Runs, ok \in BOOLEAN : cdaFindMany(r, ok)
    \/ \E r \in Runs, ok \in BOOLEAN : cdaFindFirst(r, ok)
    \/ \E r \in Runs, ok \in BOOLEAN : cdaCreate(r, ok)
    \/ \E r \in Runs, ok \in BOOLEAN : recomputeBaselines(r, ok)
    \/ \E r \in Runs : generateInsights(r)

SpecRecompute == InitRecompute /\ [][NextRecompute]_vars

\* a caller that awaits each recomputeAll before the next one
recomputeAllSequential(r) == RunInFlight = {} /\ recomputeAll(r)

NextRecomputeSeq ==
    \/ \E r \in Runs : recomputeAllSequential(r)
    \/ \E r \in Runs, ok \in BOOLEAN : cdaFindMany(r, ok)
    \/ \E r \in Runs, ok \in BOOLEAN : cdaFindFirst(r, ok)
    \/ \E r \in Runs, ok \in BOOLEAN : cdaCreate(r, ok)
    \/ \E r \in Runs, ok \in BOOLEAN : recomputeBaselines(r, ok)
    \/ \E r \in Runs : generateInsights(r)

SpecRecomputeSeq == InitRecompute /\ [][NextRecomputeSeq]_vars

(* Properties of recomputeAll *)

\* the steps of recomputeAll, in the order of its body
StepOrder == <<"timeAggregates", "baselines", "insights">>

\* what the records of the runs say at any instant: a run has thrown exactly
\* when its promise is rejected, the step that threw is the last one it
\* entered, and a rejected query of computeDailyAggregate is not its
\* insufficient-data return
FailureIsRejection ==
    \A r \in DOMAIN recompute :
       LET run == recompute[r]
       IN /\ (run.threw # "none") <=> (run.outcome = "rejected")
          /\ run.threw # "none" =>
                /\ run.pc = "failed"
                /\ run.steps[Len(run.steps)] = run.threw
          /\ (run.daily = "threw") <=> (run.threw = "timeAggregates")
          /\ run.daily = "insufficient" => run.threw # "timeAggregates"
          /\ \A k \in 1..Len(run.steps) : run.steps[k] = StepOrder[k]

\* C21: a data-access failure in any step of recomputeAll (time aggregates,
\* baselines, insights) makes recomputeAll itself fail: its promise rejects,
\* the failure is never reported as the insufficient-data return, the failed
\* run takes no later step, and the rejected access writes no aggregate row.
C21_FailurePropagates ==
    /\ []FailureIsRejection
    /\ [][\A r \in DOMAIN recompute :
             /\ recompute[r].pc = "failed" => recompute'[r] = recompute[r]
             /\ (recompute'[r].pc = "failed" /\ recompute[r].pc # "failed")
                   => timeAggregate' = timeAggregate]_vars

C21_Witness ==
    /\ \E r \in DOMAIN recompute :
          /\ recompute[r].threw = "baselines"
          /\ recompute[r].daily = "written"
          /\ recompute[r].outcome = "rejected"
    /\ \E r \in DOMAIN recompute :
          /\ recompute[r].threw = "timeAggregates"
          /\ recompute[r].steps = <<"timeAggregates">>
          /\ recompute[r].outcome = "rejected"

(* Properties of the daily aggregate versions *)

\* the versions of the TimeAggregate rows of the day, in insertion order
AggregateVersions == [k \in 1..Len(timeAggregate) |-> timeAggregate[k].version]

\* two runs hold the same version between their findFirst and their create
SameVersionRead ==
    \E r1, r2 \in DOMAIN recompute :
       /\ r1 # r2
       /\ recompute[r1].pc = "create"
       /\ recompute[r2].pc = "create"
       /\ recompute[r1].version = recompute[r2].version

----------------------------------------------------------------------------
(* The date windows of the engines over the transactions of one item: the    *)
(* two periods of analyzeRevenueChange and the before / after windows of the *)
(* outcome evaluator. A transaction is one unit sold at UnitPrice.           *)

UnitPrice == 100
BeforeWindowDays == 14
AfterEndDays == -7

\* the clock of these runs: the second tick of day 30
WindowNow == 30 * UnitsPerDay + 1

\* the days, relative to today, on which transactions are dated: around the
\* edges of the periods and windows, and after today
TxDayOffsets == {-22, -21, -15, -14, -13, -8, -7, -6, -1, 0, 1, 7, 8}

\* the first and the last tick of each of these days
TxTimes ==
    {subDays(WindowNow - 1, -d) : d \in TxDayOffsets}
       \cup {subDays(WindowNow - 1, -d) + (UnitsPerDay - 1) : d \in TxDayOffsets}

PeriodLengths == {1, 7}

\* WHERE DATE(timestamp) BETWEEN ? AND ?, both bounds formatted as dates
DateBetween(txs, startDate, endDate) ==
    {ts \in txs : Day(startDate) <= Day(ts) /\ Day(ts) <= Day(endDate)}

\* InsightEngine.analyzeRevenueChange: the rows its two queries aggregate
iePeriods(cur, comp) ==
    LET today == now
        currentStart == subDays(today, cur)
        comparisonStart == subDays(currentStart, comp)
        comparisonEnd == currentStart
    IN /\ response' = [route |-> "analyzeRevenueChange",
                       engine |-> "InsightEngine",
                       lookback |-> DateBetween(saleTimes[1], comparisonStart, today),
                       current |-> DateBetween(saleTimes[1], currentStart, today),
                       comparison |-> DateBetween(saleTimes[1], comparisonStart, comparisonEnd)]
       /\ UNCHANGED <<store, timeAggregate, trackerVars, now, baselineVars, decompVars, opsVars>>

\* ExplainableInsightEngine.analyzeRevenueChange: timestamp: { gte, lte } and
\* timestamp: { gte, lt } on the instants themselves
xiePeriods(cur) ==
    LET today == now
        currentStart == subDays(today, cur)
        comparisonStart == subDays(currentStart, cur)
    IN /\ response' = [route |-> "analyzeRevenueChange",
                       engine |-> "ExplainableInsightEngine",
                       lookback |-> {ts \in saleTimes[1] : comparisonStart <= ts /\ ts <= today},
                       current |-> {ts \in saleTimes[1] : currentStart <= ts /\ ts <= today},
                       comparison |-> {ts \in saleTimes[1] : comparisonStart <= ts /\ ts < currentStart}]
       /\ UNCHANGED <<store, timeAggregate, trackerVars, now, baselineVars, decompVars, opsVars>>

\* measureItemImpact / measureRestaurantImpact over a set of transactions:
\* revenue before and after, and the percent change as <<numerator, denominator>>
MeasuredImpact(txs, implementationDate) ==
    LET beforeStart == subDays(implementationDate, BeforeWindowDays)
        beforeEnd == implementationDate
        afterStart == implementationDate
        afterEnd == subDays(now, AfterEndDays)
        beforeRev == UnitPrice * Cardinality(DateBetween(txs, beforeStart, beforeEnd))
        afterRev == UnitPrice * Cardinality(DateBetween(txs, afterStart, afterEnd))
    IN [revenue_change_pct |-> IF beforeRev > 0
                               THEN <<(afterRev - beforeRev) * 100, beforeRev>>
                               ELSE <<0, 1>>,
        before_revenue |-> beforeRev,
        after_revenue |-> afterRev]

\* the implementation dates evaluateDecision goes on to measure: 7 days old or more
ImplementationDates ==
    {t \in {subDays(WindowNow, d) - k : d \in {7, 8}, k \in {0, 1}} :
        ~(differenceInDays(WindowNow, t) < MinDaysElapsed)}

\* the measuring step of evaluateDecision for an item or a restaurant decision
measureImpact(etype, implementationDate) ==
    /\ ~(differenceInDays(now, implementationDate) < MinDaysElapsed)
    /\ response' = [route |-> "measureImpact",
                    entityType |-> etype,
                    implementedAt |-> implementationDate,
                    actual |-> MeasuredImpact(saleTimes[1], implementationDate)]
    /\ UNCHANGED <<store, timeAggregate, trackerVars, now, baselineVars, decompVars, opsVars>>

InitWindows ==
    /\ InitTrackerIdle
    /\ InitDecompIdle
    /\ InitApiIdle
    /\ InitOpsIdle
    /\ now = WindowNow
    /\ itemBaseline = <<>>
    /\ item_baselines = {}
    /\ baselineSeq = 0
    /\ task = <<>>
    /\ saleTimes \in [{1} -> {txs \in SUBSET TxTimes : Cardinality(txs) <= 2}]

NextWindows ==
    \/ \E cur \in PeriodLengths, comp \in PeriodLengths : iePeriods(cur, comp)
    \/ \E cur \in PeriodLengths : xiePeriods(cur)
    \/ \E etype \in {"item", "restaurant"}, d \in ImplementationDates : measureImpact(etype, d)

SpecWindows == InitWindows /\ [][NextWindows]_vars

(* Properties of the date windows *)

PeriodsAnswered == response.route = "analyzeRevenueChange"

\* C22: the two periods of analyzeRevenueChange do not overlap and together
\* cover the lookback: every transaction of the combined lookback is counted
\* in exactly one of the current and the comparison aggregates.
C22_PeriodsDisjoint ==
    PeriodsAnswered =>
        /\ response.current \cap response.comparison = {}
        /\ response.current \cup response.comparison = response.lookback

\* the transactions dated up to the day 7 days before now
UpToAWeekAgo(txs) == {ts \in txs : Day(ts) <= Day(subDays(now, MinDaysElapsed))}

\* C23: the actual impact evaluateDecision measures is that of the
\* transactions dated up to 7 days before now: transactions of the last 7
\* days, or later, do not change it.
C23_LastWeekNotMeasured ==
    response.route = "measureImpact" =>
        response.actual = MeasuredImpact(UpToAWeekAgo(saleTimes[1]), response.implementedAt)

(* Further properties of the implementation timestamp *)

\* C24: the implementation timestamp is set when a decision becomes
\* implemented and is never changed afterwards by any updateDecisionStatus
\* call, a repeated 'implemented' included; a decision whose status is not
\* implemented carries no implementation timestamp.
C24_ImplementedAtSetOnce ==
    /\ [](\A id \in 1..Len(decisions) :
             decisions[id].status # "implemented"
                => decisions[id].implementedAt = NoTimestamp)
    /\ [][\A id \in 1..Len(decisions) :
             decisions[id].implementedAt # NoTimestamp
                => decisions'[id].implementedAt = decisions[id].implementedAt]_vars

----------------------------------------------------------------------------
(* ExplainableInsightEngine: the Insight rows it stores and the active       *)
(* insights it returns                                                       *)

MaxInsightRows == 2
InsightTtlDays == -7

RestaurantIds == {1, 2}

\* the row insight.create writes: createdAt defaults to the instant of the
\* insert, expiresAt is subDays(new Date(), -7)
InsightRow(restaurantId) ==
    [restaurantId |-> restaurantId,
     createdAt |-> now,
     expiresAt |-> subDays(now, InsightTtlDays)]

\* analyzeRevenueChange with enough orders in both periods reaches storeInsight
storeInsight(restaurantId) ==
    /\ Len(insight) < MaxInsightRows
    /\ insight' = Append(insight, InsightRow(restaurantId))
    /\ UNCHANGED <<trackerVars, now, baselineVars, decompVars, apiVars, recompute>>

\* a query that does not look at expiresAt
getActiveInsights_NoExpiry(restaurantId) ==
    /\ response' = [route |-> "getActiveInsights",
                    restaurantId |-> restaurantId,
                    at |-> now,
                    rows |-> Len(insight),
                    data |-> {k \in 1..Len(insight) :
                                 insight[k].restaurantId = restaurantId}]
    /\ UNCHANGED <<store, timeAggregate, trackerVars, now, baselineVars, decompVars, opsVars>>

\* insight.findMany({ where: { restaurantId, expiresAt: { gt: new Date() } } }):
\* the ids of the rows returned
getActiveInsights(restaurantId) ==
    /\ response' = [route |-> "getActiveInsights",
                    restaurantId |-> restaurantId,
                    at |-> now,
                    rows |-> Len(insight),
                    data |-> {k \in 1..Len(insight) :
                                 /\ insight[k].restaurantId = restaurantId
                                 /\ insight[k].expiresAt > now}]
    /\ UNCHANGED <<store, timeAggregate, trackerVars, now, baselineVars, decompVars, opsVars>>

NextInsights ==
    \/ \E restaurantId \in RestaurantIds : storeInsight(restaurantId)
    \/ \E restaurantId \in RestaurantIds : getActiveInsights(restaurantId)
    \/ Tick

SpecInsights == InitDecomp /\ [][NextInsights]_vars

(* Properties of the active insights *)

\* C25: getActiveInsights(scopeId) returns exactly the insights of that scope
\* that have not expired: an insight stored for the scope is returned by every
\* call less than 7 days after its creation, by no call after that, and by no
\* call for another scope; every row expires 7 days after its creation.
C25_ActiveUntilExpiry ==
    /\ \A k \in 1..Len(insight) :
          insight[k].expiresAt = insight[k].createdAt + 7 * UnitsPerDay
    /\ response.route = "getActiveInsights" =>
          \A k \in 1..response.rows :
             k \in response.data <=>
                /\ insight[k].restaurantId = response.restaurantId
                /\ response.at < insight[k].createdAt + 7 * UnitsPerDay

C25_Witness ==
    /\ response.route = "getActiveInsights"
    /\ response.data # {}
    /\ \E k \in 1..response.rows :
          /\ insight[k].restaurantId = response.restaurantId
          /\ insight[k].expiresAt <= response.at
          /\ k \notin response.data

(* Properties of the explanation of a revenue change *)

\* C26: for every nonzero total revenue change, mixEffect being the residual,
\* at least one of the volume, price and mix effects is above 30% of the
\* total in absolute value: generateExplanation names at least one factor and
\* gives the 'minor fluctuations across multiple factors' sentence for no
\* nonzero total.
C26_SomeFactorNamed ==
    decomp.engine = "InsightEngine" =>
        /\ decomp.explanation.kind # "minor fluctuations"
        /\ decomp.revenueChange # 0 =>
              /\ decomp.explanation.kind = "primarily because"
              /\ decomp.explanation.factors # {}
        /\ decomp.revenueChange = 0 => decomp.explanation.kind = "no change"

C26_Witness ==
    /\ decomp.engine = "InsightEngine"
    /\ decomp.revenueChange # 0
    /\ decomp.explanation.factors = {"mix"}
    /\ 10 * Abs(decomp.volumeEffect) = 3 * Abs(decomp.revenueChange)
    /\ 10 * Abs(decomp.priceEffect) = 3 * Abs(decomp.revenueChange)

(* Further properties of the decision generator *)

MenuActions == {"Promote", "Reprice", "Remove"}

\* the positions of the menu decisions of the response that target an item
MenuDecisionsFor(i) ==
    {k \in 1..Len(response.data) :
        response.data[k].action \in MenuActions /\ response.data[k].item = i}

\* the item is a Star of the menu data the route computed
IsStar(i) ==
    LET item == getMenuEngineering(store)[i]
    IN item.popularity100 >= PopularityThreshold * 100 /\ item.margin >= MarginThreshold

\* C27: in one generated decision list every menu item is the target of at
\* most one menu decision (Promote, Reprice or Remove), a Stars item is the
\* target of none, and the decision ids of the list are pairwise distinct.
C27_OneMenuDecisionPerItem ==
    DecisionsAnswered =>
        /\ \A i \in MenuItemIds :
              /\ Cardinality(MenuDecisionsFor(i)) <= 1
              /\ IsStar(i) => MenuDecisionsFor(i) = {}
        /\ \A j, k \in 1..Len(response.data) :
              j # k => response.data[j].id # response.data[k].id

C27_Witness ==
    /\ DecisionsAnswered
    /\ Len(response.data) >= 3
    /\ \E i \in MenuItemIds : IsStar(i)
    /\ \E i \in MenuItemIds : Cardinality(MenuDecisionsFor(i)) = 1

----------------------------------------------------------------------------
(* CSV ingest (POST /api/ingest): the rows of a file are grouped by          *)
(* posOrderId and every group becomes at most one Order with its OrderItems. *)
(* The store of these runs holds MenuItem rows as a list of [name,           *)
(* sellingPrice, costPrice10] and Order rows as a list of [posOrderId,       *)
(* totalAmount, status, channel, items]. The files have no server column.    *)

MaxRows == 2

\* parseFloat(text) || 0 on the price fields the files hold
ParseFloatOrZero(text) ==
    IF text = "40" THEN 40
    ELSE IF text = "25" THEN 25
    ELSE IF text = "-5" THEN -5
    ELSE 0

\* parseInt(text) || 1 on the quantity fields the files hold
ParseIntOrOne(text) ==
    IF text = "2" THEN 2
    ELSE IF text = "2.7" THEN 2
    ELSE IF text = "3" THEN 3
    ELSE 1

\* the parsed rows of the CSV files, after trimming
CsvRows ==
    {[posOrderId |-> "A", menu_item |-> "tea", price |-> "40", quantity |-> "2"],
     [posOrderId |-> "A", menu_item |-> "coffee", price |-> "25", quantity |-> ""],
     [posOrderId |-> "B", menu_item |-> "tea", price |-> "40", quantity |-> "2.7"],
     [posOrderId |-> "B", menu_item |-> "", price |-> "abc", quantity |-> "3"],
     [posOrderId |-> "", menu_item |-> "tea", price |-> "-5", quantity |-> "2"]}

CsvFiles == UNION {[1..n -> CsvRows] : n \in 1..MaxRows}

PosOrderIds == {r.posOrderId : r \in CsvRows} \ {""}

\* the keys of ordersMap, in insertion order
RECURSIVE OrderKeys(_, _)
OrderKeys(rows, seen) ==
    IF rows = <<>> THEN <<>>
    ELSE LET id == Head(rows).posOrderId
         IN IF id = "" \/ id \in seen
            THEN OrderKeys(Tail(rows), seen)
            ELSE <<id>> \o OrderKeys(Tail(rows), seen \cup {id})

\* ordersMap.get(posOrderId)
RowsOf(rows, id) == SelectSeq(rows, LAMBDA r : r.posOrderId = id)

\* an item row is used when it has a name and a positive price
ValidItem(row) == row.menu_item # "" /\ ParseFloatOrZero(row.price) > 0

\* menuItem.findFirst({ where: { name } }) || menuItem.create(...): the
\* MenuItem table afterwards and the id (position) of the item
EnsureMenuItem(menu, row) ==
    LET found == {k \in 1..Len(menu) : menu[k].name = row.menu_item}
        price == ParseFloatOrZero(row.price)
    IN IF found # {}
       THEN [menu |-> menu, id |-> CHOOSE k \in found : \A j \in found : k <= j]
       ELSE [menu |-> Append(menu, [name |-> row.menu_item,
                                    sellingPrice |-> price,
                                    costPrice10 |-> price * 4]),
             id |-> Len(menu) + 1]

\* the inner loop over the rows of one order: orderItemsData and the
\* MenuItem table after it
RECURSIVE OrderItemsData(_, _)
OrderItemsData(items, menu) ==
    IF items = <<>> THEN [data |-> <<>>, menu |-> menu]
    ELSE IF ~ValidItem(Head(items)) THEN OrderItemsData(Tail(items), menu)
    ELSE LET e == EnsureMenuItem(menu, Head(items))
             rest == OrderItemsData(Tail(items), e.menu)
         IN [data |-> <<[quantity |-> ParseIntOrOne(Head(items).quantity),
                         price |-> ParseFloatOrZero(Head(items).price),
                         menuItemId |-> e.id]>> \o rest.data,
             menu |-> rest.menu]

\* orderItemsData.reduce((sum, i) => sum + i.price * i.quantity, 0)
OrderTotalAmount(data) == ISum([k \in 1..Len(data) |-> data[k].price * data[k].quantity])

\* an import that does not look for the order first
IngestOrder_NoLookup(st, rows, id, rejects) ==
    LET o == OrderItemsData(RowsOf(rows, id), st.store.items)
        withMenu == [st.store EXCEPT !.items = o.menu]
    IN IF o.data = <<>> THEN [st EXCEPT !.store = withMenu]
       ELSE IF rejects
            THEN [st EXCEPT !.store = withMenu, !.errors = @ + 1]
            ELSE [st EXCEPT !.store = [withMenu EXCEPT !.orders =
                                          Append(@, [posOrderId |-> id,
                                                     totalAmount |-> OrderTotalAmount(o.data),
                                                     status |-> "COMPLETED",
                                                     channel |-> "zomato",
                                                     items |-> o.data])],
                            !.ordersCreated = @ + 1]

\* the body of the loop over ordersMap for one order: skip a duplicate, build
\* the items, skip an order without items, create the order; a rejected
\* order.create is caught and listed in errors
IngestOrder(st, rows, id, rejects) ==
    IF \E k \in 1..Len(st.store.orders) : st.store.orders[k].posOrderId = id
    THEN [st EXCEPT !.ordersSkipped = @ + 1]
    ELSE LET o == OrderItemsData(RowsOf(rows, id), st.store.items)
             withMenu == [st.store EXCEPT !.items = o.menu]
         IN IF o.data = <<>> THEN [st EXCEPT !.store = withMenu]
            ELSE IF rejects
                 THEN [st EXCEPT !.store = withMenu, !.errors = @ + 1]
                 ELSE [st EXCEPT !.store = [withMenu EXCEPT !.orders =
                                               Append(@, [posOrderId |-> id,
                                                          totalAmount |-> OrderTotalAmount(o.data),
                                                          status |-> "COMPLETED",
                                                          channel |-> "zomato",
                                                          items |-> o.data])],
                                 !.ordersCreated = @ + 1]

RECURSIVE IngestOrders(_, _, _, _)
IngestOrders(st, rows, keys, rejected) ==
    IF keys = <<>> THEN st
    ELSE IngestOrders(IngestOrder(st, rows, Head(keys), Head(keys) \in rejected),
                      rows, Tail(keys), rejected)

\* POST /api/ingest with a file that has rows and all the required columns;
\* rejected holds the orders whose order.create the database rejects
POSTIngest(rows, rejected) ==
    LET st == IngestOrders([store |-> store, ordersCreated |-> 0,
                            ordersSkipped |-> 0, errors |-> 0],
                           rows, OrderKeys(rows, {}), rejected)
    IN /\ store' = st.store
       /\ response' = [route |-> "ingest", success |-> TRUE,
                       keys |-> OrderKeys(rows, {}),
                       ordersCreated |-> st.ordersCreated,
                       ordersSkipped |-> st.ordersSkipped,
                       errors |-> st.errors]
       /\ UNCHANGED <<timeAggregate, trackerVars, now, baselineVars, decompVars, opsVars>>

NextIngest == \E rows \in CsvFiles, rejected \in SUBSET PosOrderIds : POSTIngest(rows, rejected)

SpecIngest == InitDecomp /\ [][NextIngest]_vars

(* Properties of the CSV ingest *)

OrdersWith(orders, id) == {k \in 1..Len(orders) : orders[k].posOrderId = id}

\* every posOrderId has at most one order, and every order has at least one
\* item and the total of its items
OrdersWellFormed ==
    /\ \A id \in PosOrderIds : Cardinality(OrdersWith(store.orders, id)) <= 1
    /\ \A k \in 1..Len(store.orders) :
          /\ Len(store.orders[k].items) >= 1
          /\ store.orders[k].totalAmount =
                ISum([j \in 1..Len(store.orders[k].items) |->
                        store.orders[k].items[j].price * store.orders[k].items[j].quantity])

\* C29: sequential CSV ingests are idempotent per POS order id: an ingest
\* creates no order for a posOrderId that already has one and counts it as
\* skipped, it leaves the orders that exist as they are, every posOrderId has
\* at most one order, and every order has at least one item and a totalAmount
\* equal to the sum of price * quantity over its items.
C29_IngestIdempotent ==
    /\ []OrdersWellFormed
    /\ [][LET keys == {response'.keys[k] : k \in 1..Len(response'.keys)}
              known == {id \in keys : OrdersWith(store.orders, id) # {}}
          IN /\ response'.route = "ingest"
             /\ SubSeq(store'.orders, 1, Len(store.orders)) = store.orders
             /\ Len(store'.orders) = Len(store.orders) + response'.ordersCreated
             /\ response'.ordersSkipped = Cardinality(known)
             /\ \A k \in Len(store.orders) + 1..Len(store'.orders) :
                   store'.orders[k].posOrderId \in keys \ known]_vars

C29_Witness ==
    /\ response.route = "ingest"
    /\ response.ordersSkipped >= 1
    /\ response.ordersCreated >= 1
    /\ \E k \in 1..Len(store.orders) : Len(store.orders[k].items) = 2

----------------------------------------------------------------------------
(* DecisionTracker.getPendingDecisions over decisions recorded for several   *)
(* entities                                                                  *)

EntityIds == {1, 2}

\* SELECT ... FROM decisions WHERE entity_id = ? AND status = 'pending': the
\* Decision objects returned, each labelled with the restaurant it was asked for
getPendingDecisions(restaurantId) ==
    /\ response' = [route |-> "getPendingDecisions",
                    restaurantId |-> restaurantId,
                    data |-> {[id |-> id,
                               entityId |-> restaurantId,
                               entityType |-> "restaurant",
                               status |-> "pending"] :
                                 id \in {k \in 1..Len(decisions) :
                                            /\ decisions[k].entityId = restaurantId
                                            /\ decisions[k].status = "pending"}}]
    /\ UNCHANGED <<store, timeAggregate, trackerVars, now, baselineVars, decompVars, opsVars>>

NextPending ==
    \/ \E entityId \in EntityIds, etype \in EntityTypes, predicted \in PredictedImpacts :
          logRecommendation(entityId, etype, predicted)
    \/ \E id \in DecisionIds, status \in Statuses : updateDecisionStatus(id, status)
    \/ \E restaurantId \in EntityIds : getPendingDecisions(restaurantId)

SpecPending == Init /\ [][NextPending]_vars

(* Properties of the pending decisions *)

\* the decisions recorded for a restaurant that are pending
PendingOfRestaurant(restaurantId) ==
    {id \in 1..Len(decisions) :
        /\ decisions[id].entityType = "restaurant"
        /\ decisions[id].entityId = restaurantId
        /\ decisions[id].status = "pending"}

\* C30: getPendingDecisions(scopeId) returns exactly the decisions recorded
\* for that restaurant whose status is pending: none recorded for another
\* entity type under the same numeric id, and none whose status is no longer
\* pending.
C30_PendingOfScopeOnly ==
    [][\A restaurantId \in EntityIds :
          getPendingDecisions(restaurantId)
             => {d.id : d \in response'.data} = PendingOfRestaurant(restaurantId)]_vars

====
